---- MODULE Spec2Model ----
(***************************************************************************)
(* The tiered conversation memory of memory_manager.py: a Redis list per   *)
(* user (fast cache), a MongoDB collection (durable store) and the         *)
(* in-process dictionary _local_conversations (fallback).                  *)
(*                                                                         *)
(* Every public function of the module is one action.  The two backends    *)
(* are the environment: each is up or down, and goes up and down between   *)
(* calls.  A call on a tier whose backend is down raises inside the        *)
(* function's try block; a connect to a backend that is down fails at the  *)
(* ping.  datetime.now() is a logical clock that each call of              *)
(* save_conversation reads once and that moves on between calls.           *)
(*                                                                         *)
(* The chat application runs one script thread per browser session in the  *)
(* same process, so the functions of the module can also run interleaved.  *)
(* The specifications at the end take get_redis_client,                    *)
(* get_mongo_collection, save_conversation and delete_last_conversation    *)
(* one statement at a time for two sessions, and the handlers of app.py    *)
(* around the session's message list.                                      *)
(***************************************************************************)
EXTENDS Integers, Sequences, FiniteSets, TLC

\* ---------------------------------------------------------------- bounds
MaxClock == 3          \* number of save_conversation calls in a behaviour
MaxLimit == 2          \* largest limit passed to the read functions

\* strftime("%b %d, %H:%M") keeps the minute: clock ticks per rendered unit
TicksPerMinute == 2

Users    == {"alice", "bob"}
Sessions == {"s1", "s2"}   \* script threads of the Streamlit process
Limits   == 0..MaxLimit

\* the conversation: what the user says in the i-th exchange and what the
\* model answers to it
UserMsgs(i) == {<<"question", i>>}
AiMsgs(i)   == {<<"answer", i>>}

VARIABLES
    REDIS_URL,            \* config.REDIS_URL is a non-empty string
    MONGODB_URI,          \* config.MONGODB_URI is a non-empty string
    redis_up,             \* the Redis server answers
    mongo_up,             \* the MongoDB server answers
    redis_client,         \* _redis_client is not None
    mongo_collection,     \* _mongo_collection is not None
    redis_store,          \* user -> list at key conversation:<user>, head first
    mongo_store,          \* the documents of groq_chat_db.conversations
    local_conversations,  \* _local_conversations: user -> list, oldest first
    clock,                \* the instant datetime.now() returns next
    next_id,              \* the _id the next inserted document gets
    call,                 \* the call that has just returned, with its result
    redis_pinged,         \* the object in _redis_client has answered a ping
    threads,              \* session -> position and locals of its thread
    messages              \* st.session_state.messages of the chat session

vars == <<REDIS_URL, MONGODB_URI, redis_up, mongo_up, redis_client,
          mongo_collection, redis_store, mongo_store, local_conversations,
          clock, next_id, call, redis_pinged, threads, messages>>

\* ------------------------------------------------------------ conversions
\* datetime.isoformat() / datetime.fromisoformat(): a string form of the instant
isoformat(ts) == <<"iso", ts>>
fromisoformat(s) == s[2]

\* ts.strftime("%b %d, %H:%M"): the instant cut to the minute
strftime(ts) == <<"fmt", ts \div TicksPerMinute>>

\* json.dumps(payload) / json.loads(item)
json_dumps(payload) == [json |-> payload]
json_loads(item) == item.json

\* a list item that is not the JSON text of an object: json.loads(item), or
\* the d.get that follows it, raises
NotJson == [text |-> "not json"]
decodable(item) == "json" \in DOMAIN item
decodes(items) == \A i \in 1..Len(items) : decodable(items[i])

\* ------------------------------------------------------------ sequences
\* the reversal forgotten
not_reversed(s) == s

\* reversed(s)
RECURSIVE reversed(_)
reversed(s) == IF s = <<>> THEN <<>> ELSE Append(reversed(Tail(s)), Head(s))

Min(a, b) == IF a < b THEN a ELSE b
Max(a, b) == IF a > b THEN a ELSE b

\* s[:n]
FirstN(s, n) == SubSeq(s, 1, Min(n, Len(s)))

\* items[-limit:] for limit > 0
LastN(s, n) == SubSeq(s, Max(1, Len(s) - n + 1), Len(s))

\* ------------------------------------------------------------ connections
\* the client built and pinged again at every call
get_redis_client_reprobe == IF ~REDIS_URL THEN FALSE ELSE redis_up

\* get_redis_client(): TRUE when it returns a client.  A cached client is
\* returned as it is; otherwise the client is built and pinged, and kept only
\* when the ping is answered.
get_redis_client ==
    IF redis_client THEN TRUE
    ELSE IF ~REDIS_URL THEN FALSE
    ELSE redis_up

\* get_mongo_collection(): TRUE when it returns the collection.
get_mongo_collection ==
    IF mongo_collection THEN TRUE
    ELSE IF ~MONGODB_URI THEN FALSE
    ELSE mongo_up

\* the exceptions the Redis client raises during a call that asks for the
\* client: at the ping of a new client, and at the command sent through a
\* client whose server does not answer
redis_faults ==
    (IF ~redis_client /\ REDIS_URL /\ ~redis_up
     THEN {"redis_connect"} ELSE {})
    \cup (IF get_redis_client /\ ~redis_up THEN {"redis_call"} ELSE {})

\* the exceptions pymongo raises during a call that asks for the collection
mongo_faults ==
    (IF ~mongo_collection /\ MONGODB_URI /\ ~mongo_up
     THEN {"mongo_connect"} ELSE {})
    \cup (IF get_mongo_collection /\ ~mongo_up THEN {"mongo_call"} ELSE {})

\* the try blocks around the connects only
caught_at_connect == {"redis_connect", "mongo_connect"}

\* the exceptions an except clause of the module catches: those of the two
\* connects, and those of every command on r and on col
caught == {"redis_connect", "redis_call", "mongo_connect", "mongo_call"}

\* an exception leaves the public function
raised(faults) == faults \ caught # {}

\* ------------------------------------------------------------ the stores
\* the range one short: lrange(key, 0, limit - 2)
lrange_short(user_id, limit) == FirstN(redis_store[user_id], Max(0, limit - 1))

\* r.lrange(key, 0, max(0, limit - 1)): the first limit items of the list
lrange(user_id, limit) == FirstN(redis_store[user_id], Max(0, limit - 1) + 1)

\* the find without its filter: col.find({})
AnyDocs(user_id) == mongo_store

UserDocs(user_id) == {d \in mongo_store : d.user_id = user_id}

\* the sort with the direction mistaken: earliest timestamp first
RECURSIVE sort_asc(_)
sort_asc(docs) ==
    IF docs = {} THEN <<>>
    ELSE LET top == CHOOSE d \in docs : \A e \in docs : d.timestamp <= e.timestamp
         IN  <<top>> \o sort_asc(docs \ {top})

\* .sort("timestamp", -1): the documents, latest timestamp first
RECURSIVE sort_desc(_)
sort_desc(docs) ==
    IF docs = {} THEN <<>>
    ELSE LET top == CHOOSE d \in docs : \A e \in docs : e.timestamp <= d.timestamp
         IN  <<top>> \o sort_desc(docs \ {top})

\* the find with its limit one short: .limit(limit - 1)
mongo_find_short(user_id, limit) ==
    FirstN(sort_desc(UserDocs(user_id)), limit - 1)

\* the find without its .limit(limit)
mongo_find_all(user_id, limit) == sort_desc(UserDocs(user_id))

\* col.find({"user_id": user_id}).sort("timestamp", -1).limit(limit)
mongo_find(user_id, limit) == FirstN(sort_desc(UserDocs(user_id)), limit)

\* the append lost: the list stays as it was
local_append_lost(user_id, user_msg, ai_msg, timestamp) ==
    local_conversations[user_id]

\* _local_append: the new list of the user
local_append(user_id, user_msg, ai_msg, timestamp) ==
    Append(local_conversations[user_id],
           [user_message |-> user_msg, ai_response |-> ai_msg,
            timestamp |-> isoformat(timestamp)])

\* the slice taken from the wrong end: items[:limit]
local_get_oldest(user_id, limit) ==
    IF limit <= 0 THEN <<>> ELSE FirstN(local_conversations[user_id], limit)

\* _local_get_recent
local_get_recent(user_id, limit) ==
    IF limit <= 0 THEN <<>> ELSE LastN(local_conversations[user_id], limit)

\* ------------------------------------------------------------ calls
\* a script thread that is not inside a function of the module
Idle == [pc |-> "idle", op |-> "", user |-> "", msg |-> <<>>, resp |-> <<>>, ts |-> 0,
         got |-> "", found |-> 0, deleted_count |-> 0, done |-> {},
         ret |-> FALSE]

NoCall == [op |-> "none", user |-> "", limit |-> 0, msg |-> <<>>, resp |-> <<>>,
           ts |-> 0, ret |-> FALSE, tried |-> {}, done |-> {}, out |-> <<>>,
           raised |-> FALSE]

TypeOK ==
    /\ REDIS_URL \in BOOLEAN /\ MONGODB_URI \in BOOLEAN
    /\ redis_up \in BOOLEAN /\ mongo_up \in BOOLEAN
    /\ redis_client \in BOOLEAN /\ mongo_collection \in BOOLEAN
    /\ DOMAIN redis_store = Users
    /\ DOMAIN local_conversations = Users
    /\ clock \in 1..(MaxClock + 1)
    /\ next_id \in 1..(MaxClock + 1)
    /\ redis_pinged \in BOOLEAN
    /\ DOMAIN threads = Sessions
    /\ DOMAIN messages = 1..Len(messages)
    /\ \A i \in DOMAIN messages : messages[i].role \in {"user", "assistant"}

Init ==
    /\ REDIS_URL \in BOOLEAN
    /\ MONGODB_URI \in BOOLEAN
    /\ redis_up \in BOOLEAN
    /\ mongo_up \in BOOLEAN
    /\ redis_client = FALSE
    /\ mongo_collection = FALSE
    /\ redis_store = [u \in Users |-> <<>>]
    /\ mongo_store = {}
    /\ local_conversations = [u \in Users |-> <<>>]
    /\ clock = 1
    /\ next_id = 1
    /\ call = NoCall
    /\ redis_pinged = FALSE
    /\ threads = [s \in Sessions |-> Idle]
    /\ messages = <<>>

\* save_conversation: the payload pushed to Redis
redis_payload(user_msg, ai_msg, timestamp) ==
    [user_message |-> user_msg, ai_response |-> ai_msg,
     timestamp |-> isoformat(timestamp)]

\* the document stamped by a second reading of the clock
mongo_document_restamped(id, user_id, user_msg, ai_msg, timestamp) ==
    [id |-> id, user_id |-> user_id, user_message |-> user_msg,
     ai_response |-> ai_msg, timestamp |-> timestamp + 1]

\* save_conversation: the document inserted into Mongo
mongo_document(id, user_id, user_msg, ai_msg, timestamp) ==
    [id |-> id, user_id |-> user_id, user_message |-> user_msg,
     ai_response |-> ai_msg, timestamp |-> timestamp]

\* save_conversation: r.lpush returned
save_redis == get_redis_client /\ redis_up

\* one try block around both writes: a Redis failure skips the Mongo write
save_mongo_after_redis ==
    get_mongo_collection /\ mongo_up /\ ~(get_redis_client /\ ~redis_up)

\* save_conversation: col.insert_one returned
save_mongo == get_mongo_collection /\ mongo_up

\* the local list written by every save
save_local_always == TRUE

\* the local list written whenever the Redis write did not succeed
save_local_unless_redis == ~save_redis

\* save_conversation: not saved_any, the turn goes to the local list
save_local == ~(save_redis \/ save_mongo)

\* save_conversation(user_id, user_msg, ai_msg)
save_conversation(user_id, user_msg, ai_msg) ==
    /\ clock <= MaxClock
    /\ LET timestamp == clock
           payload == redis_payload(user_msg, ai_msg, timestamp)
           r == get_redis_client
           redis_saved == save_redis
           col == get_mongo_collection
           mongo_saved == save_mongo
           saved_any == ~save_local
       IN  /\ clock' = clock + 1
           /\ redis_client' = r
           /\ redis_store' =
                  IF redis_saved
                  THEN [redis_store EXCEPT
                           ![user_id] = <<json_dumps(payload)>> \o @]
                  ELSE redis_store
           /\ mongo_collection' = col
           /\ mongo_store' =
                  IF mongo_saved
                  THEN mongo_store \cup
                         {mongo_document(next_id, user_id, user_msg, ai_msg,
                                         timestamp)}
                  ELSE mongo_store
           /\ next_id' = IF mongo_saved THEN next_id + 1 ELSE next_id
           /\ local_conversations' =
                  IF ~saved_any
                  THEN [local_conversations EXCEPT
                           ![user_id] = local_append(user_id, user_msg, ai_msg,
                                                     timestamp)]
                  ELSE local_conversations
           /\ call' = [NoCall EXCEPT
                         !.op = "save", !.user = user_id, !.msg = user_msg,
                         !.resp = ai_msg, !.ts = timestamp, !.ret = TRUE,
                         !.raised = raised(redis_faults \cup mongo_faults),
                         !.tried = (IF r THEN {"redis"} ELSE {}) \cup
                                   (IF col THEN {"mongo"} ELSE {}) \cup
                                   (IF ~saved_any THEN {"local"} ELSE {}),
                         !.done = (IF redis_saved THEN {"redis"} ELSE {}) \cup
                                  (IF mongo_saved THEN {"mongo"} ELSE {}) \cup
                                  (IF ~saved_any THEN {"local"} ELSE {})]
    /\ UNCHANGED <<REDIS_URL, MONGODB_URI, redis_up, mongo_up>>

\* the two appends in the other order: the answer before the question
RECURSIVE as_messages_swapped(_)
as_messages_swapped(turns) ==
    IF turns = <<>> THEN <<>>
    ELSE <<[role |-> "assistant", content |-> Head(turns).ai_response],
           [role |-> "user", content |-> Head(turns).user_message]>>
         \o as_messages_swapped(Tail(turns))

\* the two messages a stored turn becomes in the context
RECURSIVE as_messages(_)
as_messages(turns) ==
    IF turns = <<>> THEN <<>>
    ELSE <<[role |-> "user", content |-> Head(turns).user_message],
           [role |-> "assistant", content |-> Head(turns).ai_response]>>
         \o as_messages(Tail(turns))

loads_all(items) == [i \in 1..Len(items) |-> json_loads(items[i])]

\* _get_context_from_mongo(user_id, limit)
get_context_from_mongo(user_id, limit) ==
    IF ~get_mongo_collection THEN <<>>
    ELSE IF ~mongo_up THEN <<>>
    ELSE as_messages(reversed(mongo_find(user_id, limit)))

\* the Redis branch of get_context_history returns: lrange answered and
\* every item of the range was decoded
context_from_redis(user_id, limit) ==
    get_redis_client /\ redis_up /\ decodes(lrange(user_id, limit))

\* an empty Redis result falling through to Mongo ("if history: return")
get_context_history_if_any(user_id, limit) ==
    IF limit <= 0 THEN <<>>
    ELSE IF /\ context_from_redis(user_id, limit)
            /\ lrange(user_id, limit) # <<>>
    THEN as_messages(loads_all(reversed(lrange(user_id, limit))))
    ELSE LET mongo_hist == get_context_from_mongo(user_id, limit)
         IN  IF mongo_hist # <<>> THEN mongo_hist
             ELSE as_messages(local_get_recent(user_id, limit))

\* get_context_history(user_id, limit): the list returned
get_context_history_result(user_id, limit) ==
    IF limit <= 0 THEN <<>>
    ELSE IF context_from_redis(user_id, limit)
    THEN as_messages(loads_all(reversed(lrange(user_id, limit))))
    ELSE LET mongo_hist == get_context_from_mongo(user_id, limit)
         IN  IF mongo_hist # <<>> THEN mongo_hist
             ELSE as_messages(local_get_recent(user_id, limit))

\* the tier whose data get_context_history returns
get_context_history_tier(user_id, limit) ==
    IF limit <= 0 THEN "none"
    ELSE IF context_from_redis(user_id, limit) THEN "redis"
    ELSE IF get_context_from_mongo(user_id, limit) # <<>> THEN "mongo"
    ELSE "local"

\* get_context_history(user_id, limit): the call returns
\* get_context_history_result(user_id, limit) and keeps the handles it opened
get_context_history(user_id, limit) ==
    /\ redis_client' = IF limit <= 0 THEN redis_client ELSE get_redis_client
    /\ mongo_collection' =
           IF limit <= 0 \/ context_from_redis(user_id, limit)
           THEN mongo_collection
           ELSE get_mongo_collection
    /\ call' = [NoCall EXCEPT
                  !.op = "context",
                  !.raised =
                     raised(IF limit <= 0 THEN {}
                            ELSE IF context_from_redis(user_id, limit)
                            THEN redis_faults
                            ELSE redis_faults \cup mongo_faults)]
    /\ UNCHANGED <<REDIS_URL, MONGODB_URI, redis_up, mongo_up, redis_store,
                   mongo_store, local_conversations, clock, next_id>>

\* the (user_message, ai_response, timestamp_str) tuples of the sidebar
redis_tuples(items) ==
    [i \in 1..Len(items) |->
        LET d == json_loads(items[i])
        IN  <<d.user_message, d.ai_response,
              strftime(fromisoformat(d.timestamp))>>]

mongo_tuples(rows) ==
    [i \in 1..Len(rows) |->
        <<rows[i].user_message, rows[i].ai_response,
          strftime(rows[i].timestamp)>>]

local_tuples(items) ==
    [i \in 1..Len(items) |->
        <<items[i].user_message, items[i].ai_response,
          strftime(fromisoformat(items[i].timestamp))>>]

\* the Redis branch of load_recent_conversations returns: lrange answered
\* and every item of the range was decoded
recent_from_redis(user_id, limit) ==
    get_redis_client /\ redis_up /\ decodes(lrange(user_id, limit))

\* the Mongo branch of load_recent_conversations returns
recent_from_mongo == get_mongo_collection /\ mongo_up

\* the tier whose data load_recent_conversations returns
load_recent_conversations_tier(user_id, limit) ==
    IF limit <= 0 THEN "none"
    ELSE IF recent_from_redis(user_id, limit) THEN "redis"
    ELSE IF recent_from_mongo THEN "mongo"
    ELSE "local"

\* load_recent_conversations(user_id, limit): the list returned
load_recent_conversations_result(user_id, limit) ==
    IF limit <= 0 THEN <<>>
    ELSE IF recent_from_redis(user_id, limit)
    THEN redis_tuples(lrange(user_id, limit))
    ELSE IF recent_from_mongo THEN mongo_tuples(mongo_find(user_id, limit))
    ELSE local_tuples(reversed(local_get_recent(user_id, limit)))

\* load_recent_conversations(user_id, limit): the call returns
\* load_recent_conversations_result(user_id, limit) and keeps the handles it
\* opened
load_recent_conversations(user_id, limit) ==
    /\ redis_client' = IF limit <= 0 THEN redis_client ELSE get_redis_client
    /\ mongo_collection' =
           IF limit <= 0 \/ recent_from_redis(user_id, limit)
           THEN mongo_collection
           ELSE get_mongo_collection
    /\ call' = [NoCall EXCEPT
                  !.op = "recent",
                  !.raised =
                     raised(IF limit <= 0 THEN {}
                            ELSE IF recent_from_redis(user_id, limit)
                            THEN redis_faults
                            ELSE redis_faults \cup mongo_faults)]
    /\ UNCHANGED <<REDIS_URL, MONGODB_URI, redis_up, mongo_up, redis_store,
                   mongo_store, local_conversations, clock, next_id>>

\* the turn held by a Redis item, a Mongo document, a local item
redis_turn(item) ==
    IF ~decodable(item) THEN [user_message |-> <<>>, ai_response |-> <<>>,
                              ts |-> 0]
    ELSE LET d == json_loads(item)
         IN  [user_message |-> d.user_message, ai_response |-> d.ai_response,
              ts |-> fromisoformat(d.timestamp)]

mongo_turn(doc) ==
    [user_message |-> doc.user_message, ai_response |-> doc.ai_response,
     ts |-> doc.timestamp]

local_turn(item) ==
    [user_message |-> item.user_message, ai_response |-> item.ai_response,
     ts |-> fromisoformat(item.timestamp)]

\* the pop at the other end of the list: r.rpop(key)
rpop(user_id) ==
    SubSeq(redis_store[user_id], 1, Len(redis_store[user_id]) - 1)

\* r.lpop(key): the list without its head
lpop(user_id) == Tail(redis_store[user_id])

\* the find_one sorted the other way: the earliest document of the user
find_one_earliest(user_id) == Head(sort_asc(UserDocs(user_id)))

\* col.find_one({"user_id": user_id}, sort=[("timestamp", -1)])
find_one_latest(user_id) == Head(sort_desc(UserDocs(user_id)))

\* delete_last_conversation: r.lpop(key) returned an item
delete_last_redis(user_id) ==
    get_redis_client /\ redis_up /\ redis_store[user_id] # <<>>

\* the document deleted only when Redis had nothing to pop
delete_last_mongo_otherwise(user_id) ==
    /\ ~delete_last_redis(user_id)
    /\ get_mongo_collection /\ mongo_up /\ UserDocs(user_id) # {}

\* delete_last_conversation: find_one found the latest document and
\* delete_one was issued
delete_last_mongo(user_id) ==
    get_mongo_collection /\ mongo_up /\ UserDocs(user_id) # {}

\* the local list popped whatever the external tiers did
delete_last_local_always(user_id) == local_conversations[user_id] # <<>>

\* delete_last_conversation: the local list is popped
delete_last_local(user_id) ==
    /\ ~(delete_last_redis(user_id) \/ delete_last_mongo(user_id))
    /\ local_conversations[user_id] # <<>>

\* deleted_any set whenever the Redis call returned, an item popped or not
delete_last_deleted_any_call(user_id) ==
    \/ get_redis_client /\ redis_up
    \/ delete_last_mongo(user_id)
    \/ delete_last_local(user_id)

\* delete_last_conversation: deleted_any, the value returned
delete_last_deleted_any(user_id) ==
    \/ delete_last_redis(user_id)
    \/ delete_last_mongo(user_id)
    \/ delete_last_local(user_id)

\* delete_last_conversation(user_id)
delete_last_conversation(user_id) ==
    LET latest == find_one_latest(user_id)
        items == local_conversations[user_id]
    IN  /\ redis_client' = get_redis_client
        /\ redis_store' =
               IF delete_last_redis(user_id)
               THEN [redis_store EXCEPT ![user_id] = lpop(user_id)]
               ELSE redis_store
        /\ mongo_collection' = get_mongo_collection
        /\ mongo_store' =
               IF delete_last_mongo(user_id)
               THEN {d \in mongo_store : d.id # latest.id}
               ELSE mongo_store
        /\ local_conversations' =
               IF delete_last_local(user_id)
               THEN [local_conversations EXCEPT
                        ![user_id] = SubSeq(items, 1, Len(items) - 1)]
               ELSE local_conversations
        /\ call' = [NoCall EXCEPT
                      !.op = "delete", !.user = user_id,
                      !.ret = delete_last_deleted_any(user_id),
                      !.raised = raised(redis_faults \cup mongo_faults),
                      !.tried =
                         (IF get_redis_client THEN {"redis"} ELSE {}) \cup
                         (IF get_mongo_collection THEN {"mongo"} ELSE {}) \cup
                         (IF ~(delete_last_redis(user_id)
                               \/ delete_last_mongo(user_id))
                          THEN {"local"} ELSE {}),
                      !.done =
                         (IF delete_last_redis(user_id) THEN {"redis"} ELSE {})
                         \cup
                         (IF delete_last_mongo(user_id) THEN {"mongo"} ELSE {})
                         \cup
                         (IF delete_last_local(user_id) THEN {"local"} ELSE {}),
                      !.out =
                         (IF delete_last_redis(user_id)
                          THEN <<redis_turn(Head(redis_store[user_id]))>>
                          ELSE <<>>) \o
                         (IF delete_last_mongo(user_id)
                          THEN <<mongo_turn(latest)>> ELSE <<>>) \o
                         (IF delete_last_local(user_id)
                          THEN <<local_turn(items[Len(items)])>> ELSE <<>>)]
        /\ UNCHANGED <<REDIS_URL, MONGODB_URI, redis_up, mongo_up, clock,
                       next_id>>

\* the delete sent for a key that holds nothing
clear_all_redis_other_key == FALSE

\* clear_all_history: r.delete(key) succeeded
clear_all_redis == get_redis_client /\ redis_up

\* the Mongo block of clear_all_history left out
clear_all_mongo_skipped == FALSE

\* clear_all_history: col.delete_many succeeded
clear_all_mongo == get_mongo_collection /\ mongo_up

\* clear_all_history(user_id)
clear_all_history(user_id) ==
    /\ redis_client' = get_redis_client
    /\ redis_store' =
           IF clear_all_redis THEN [redis_store EXCEPT ![user_id] = <<>>]
           ELSE redis_store
    /\ mongo_collection' = get_mongo_collection
    /\ mongo_store' =
           IF clear_all_mongo THEN {d \in mongo_store : d.user_id # user_id}
           ELSE mongo_store
    /\ local_conversations' = [local_conversations EXCEPT ![user_id] = <<>>]
    /\ call' = [NoCall EXCEPT
                  !.op = "clear", !.user = user_id,
                  !.raised = raised(redis_faults \cup mongo_faults),
                  !.tried = (IF get_redis_client THEN {"redis"} ELSE {}) \cup
                            (IF get_mongo_collection THEN {"mongo"} ELSE {})
                            \cup {"local"},
                  !.done = (IF clear_all_redis THEN {"redis"} ELSE {}) \cup
                           (IF clear_all_mongo THEN {"mongo"} ELSE {}) \cup
                           {"local"}]
    /\ UNCHANGED <<REDIS_URL, MONGODB_URI, redis_up, mongo_up, clock, next_id>>

\* ------------------------------------------------------------ environment
\* the Redis server stops or starts answering
redis_outage ==
    /\ redis_up' = ~redis_up
    /\ call' = NoCall
    /\ UNCHANGED <<REDIS_URL, MONGODB_URI, mongo_up, redis_client,
                   mongo_collection, redis_store, mongo_store,
                   local_conversations, clock, next_id, redis_pinged,
                   threads, messages>>

\* the MongoDB server stops or starts answering
mongo_outage ==
    /\ mongo_up' = ~mongo_up
    /\ call' = NoCall
    /\ UNCHANGED <<REDIS_URL, MONGODB_URI, redis_up, redis_client,
                   mongo_collection, redis_store, mongo_store,
                   local_conversations, clock, next_id, redis_pinged,
                   threads, messages>>

\* the local lists carried over into the new process
local_conversations_kept == local_conversations

\* _local_conversations = {} at import
local_conversations_at_import == [u \in Users |-> <<>>]

\* the process ends and a new one starts: the module globals are initialised
\* again, the servers keep their data
restart ==
    /\ redis_client' = FALSE
    /\ mongo_collection' = FALSE
    /\ local_conversations' = local_conversations_at_import
    /\ call' = [NoCall EXCEPT !.op = "restart"]
    /\ redis_pinged' = FALSE
    /\ UNCHANGED <<REDIS_URL, MONGODB_URI, redis_up, mongo_up, redis_store,
                   mongo_store, clock, next_id, threads, messages>>

\* one call at a time: the function runs from its first statement to its
\* return with no other thread in between, so a client it leaves in
\* _redis_client has answered its ping
one_at_a_time ==
    /\ redis_pinged' = redis_client'
    /\ UNCHANGED <<threads, messages>>

Save ==
    /\ \E u \in Users, m \in UserMsgs(clock), a \in AiMsgs(clock) :
          save_conversation(u, m, a)
    /\ one_at_a_time
GetContext ==
    /\ \E u \in Users, k \in Limits : get_context_history(u, k)
    /\ one_at_a_time
LoadRecent ==
    /\ \E u \in Users, k \in Limits : load_recent_conversations(u, k)
    /\ one_at_a_time
DeleteLast ==
    /\ \E u \in Users : delete_last_conversation(u)
    /\ one_at_a_time
ClearAll ==
    /\ \E u \in Users : clear_all_history(u)
    /\ one_at_a_time

Next ==
    \/ Save
    \/ GetContext
    \/ LoadRecent
    \/ DeleteLast
    \/ ClearAll
    \/ redis_outage
    \/ mongo_outage

Spec == Init /\ [][Next]_vars

\* an item of a user's Redis list, all of them JSON so far, is overwritten
\* from outside the module with a text that is not JSON
corrupt_record ==
    /\ \E u \in Users :
          /\ decodes(redis_store[u])
          /\ \E i \in 1..Len(redis_store[u]) :
                redis_store' = [redis_store EXCEPT ![u][i] = NotJson]
    /\ call' = NoCall
    /\ UNCHANGED <<REDIS_URL, MONGODB_URI, redis_up, mongo_up, redis_client,
                   mongo_collection, mongo_store, local_conversations, clock,
                   next_id, redis_pinged, threads, messages>>

\* saves and reads across outages and restarts of the process
NextRestart ==
    \/ Save
    \/ GetContext
    \/ LoadRecent
    \/ redis_outage
    \/ mongo_outage
    \/ restart

SpecRestart == Init /\ [][NextRestart]_vars

\* both servers configured and answering from the start, and no outage
InitHealthy == Init /\ REDIS_URL /\ MONGODB_URI /\ redis_up /\ mongo_up

NextHealthy ==
    \/ Save
    \/ GetContext
    \/ LoadRecent
    \/ DeleteLast
    \/ ClearAll

SpecHealthy == InitHealthy /\ [][NextHealthy]_vars

NextCorrupt == Next \/ corrupt_record

\* the module with a Redis list that may hold an undecodable item
SpecCorrupt == Init /\ [][NextCorrupt]_vars

\* ------------------------------------------------------------ sessions
\* a script thread inside, or back from, one of the two connects
Connect == [Idle EXCEPT !.op = "connect"]

\* the frame of a statement of session s that touches no store
thread_only ==
    UNCHANGED <<REDIS_URL, MONGODB_URI, redis_up, mongo_up, redis_store,
                mongo_store, local_conversations, clock, next_id, call,
                messages>>

\* get_redis_client, lines 31-35: the cached client is returned as it is;
\* without REDIS_URL the function returns None
connect_redis_check(s) ==
    /\ threads[s].pc = "idle"
    /\ threads' = [threads EXCEPT ![s] =
          IF redis_client
          THEN [Connect EXCEPT !.got =
                   IF redis_pinged THEN "pinged" ELSE "not pinged"]
          ELSE IF ~REDIS_URL THEN [Connect EXCEPT !.got = "None"]
          ELSE [Connect EXCEPT !.pc = "redis_from_url"]]
    /\ UNCHANGED <<redis_client, redis_pinged, mongo_collection>>
    /\ thread_only

\* get_redis_client, line 38: _redis_client = redis.from_url(...), which
\* opens no connection
connect_redis_from_url(s) ==
    /\ threads[s].pc = "redis_from_url"
    /\ redis_client' = TRUE
    /\ redis_pinged' = FALSE
    /\ threads' = [threads EXCEPT ![s].pc = "redis_ping"]
    /\ UNCHANGED mongo_collection
    /\ thread_only

\* get_redis_client, lines 44-50: _redis_client.ping() on whatever the
\* global holds now, then return _redis_client; an exception (the server
\* does not answer, or another session has put None back) resets the global
connect_redis_ping(s) ==
    /\ threads[s].pc = "redis_ping"
    /\ IF redis_client /\ redis_up
       THEN /\ redis_pinged' = TRUE
            /\ threads' = [threads EXCEPT ![s] = [Connect EXCEPT !.got = "pinged"]]
            /\ UNCHANGED redis_client
       ELSE /\ redis_client' = FALSE
            /\ redis_pinged' = FALSE
            /\ threads' = [threads EXCEPT ![s] = [Connect EXCEPT !.got = "None"]]
    /\ UNCHANGED mongo_collection
    /\ thread_only

\* get_mongo_collection, lines 63-70: the cached collection is returned;
\* otherwise _mongo_client is built, which no caller is ever given
connect_mongo_check(s) ==
    /\ threads[s].pc = "idle"
    /\ threads' = [threads EXCEPT ![s] =
          IF mongo_collection THEN [Connect EXCEPT !.got = "pinged"]
          ELSE IF ~MONGODB_URI THEN [Connect EXCEPT !.got = "None"]
          ELSE [Connect EXCEPT !.pc = "mongo_ping"]]
    /\ UNCHANGED <<redis_client, redis_pinged, mongo_collection>>
    /\ thread_only

\* get_mongo_collection, lines 71-78: the ping, and only after it the
\* assignment of _mongo_collection; the except clause puts None back
connect_mongo_ping(s) ==
    /\ threads[s].pc = "mongo_ping"
    /\ mongo_collection' = mongo_up
    /\ threads' = [threads EXCEPT ![s] =
          [Connect EXCEPT !.got = IF mongo_up THEN "pinged" ELSE "None"]]
    /\ UNCHANGED <<redis_client, redis_pinged>>
    /\ thread_only

ConnectRedisCheck == \E s \in Sessions : connect_redis_check(s)
ConnectRedisFromUrl == \E s \in Sessions : connect_redis_from_url(s)
ConnectRedisPing == \E s \in Sessions : connect_redis_ping(s)
ConnectMongoCheck == \E s \in Sessions : connect_mongo_check(s)
ConnectMongoPing == \E s \in Sessions : connect_mongo_ping(s)

NextConnect ==
    \/ ConnectRedisCheck
    \/ ConnectRedisFromUrl
    \/ ConnectRedisPing
    \/ ConnectMongoCheck
    \/ ConnectMongoPing
    \/ redis_outage
    \/ mongo_outage

\* the two connects of several sessions, one statement at a time
SpecConnect == Init /\ [][NextConnect]_vars

\* save_conversation, lines 109-114: the timestamp is read and the payload
\* built
save_timestamp(s, user_id, user_msg, ai_msg) ==
    /\ threads[s].pc = "idle"
    /\ clock <= MaxClock
    /\ clock' = clock + 1
    /\ threads' = [threads EXCEPT ![s] =
          [Idle EXCEPT !.pc = "save_redis", !.op = "save", !.user = user_id,
                       !.msg = user_msg, !.resp = ai_msg, !.ts = clock]]
    /\ UNCHANGED <<REDIS_URL, MONGODB_URI, redis_up, mongo_up, redis_client,
                   redis_pinged, mongo_collection, redis_store, mongo_store,
                   local_conversations, next_id, call, messages>>

\* save_conversation, lines 118-126: the client is asked for and the
\* payload pushed to the head of the user's list
save_lpush(s) ==
    LET t == threads[s]
        payload == redis_payload(t.msg, t.resp, t.ts)
    IN  /\ t.pc = "save_redis"
        /\ redis_client' = get_redis_client
        /\ redis_pinged' = get_redis_client
        /\ redis_store' =
               IF save_redis
               THEN [redis_store EXCEPT
                        ![t.user] = <<json_dumps(payload)>> \o @]
               ELSE redis_store
        /\ threads' = [threads EXCEPT
               ![s].pc = "save_mongo",
               ![s].done = IF save_redis THEN {"redis"} ELSE {}]
        /\ UNCHANGED <<REDIS_URL, MONGODB_URI, redis_up, mongo_up,
                       mongo_collection, mongo_store, local_conversations,
                       clock, next_id, call, messages>>

\* save_conversation, lines 129-149: the collection is asked for and the
\* document inserted; a turn that reached neither store goes to the local
\* list; the function returns True
save_insert(s) ==
    LET t == threads[s]
        saved_any == "redis" \in t.done \/ save_mongo
    IN  /\ t.pc = "save_mongo"
        /\ mongo_collection' = get_mongo_collection
        /\ mongo_store' =
               IF save_mongo
               THEN mongo_store \cup
                      {mongo_document(next_id, t.user, t.msg, t.resp, t.ts)}
               ELSE mongo_store
        /\ next_id' = IF save_mongo THEN next_id + 1 ELSE next_id
        /\ local_conversations' =
               IF ~saved_any
               THEN [local_conversations EXCEPT
                        ![t.user] = local_append(t.user, t.msg, t.resp, t.ts)]
               ELSE local_conversations
        /\ threads' = [threads EXCEPT
               ![s].pc = "idle",
               ![s].done = t.done \cup
                    (IF save_mongo THEN {"mongo"} ELSE {}) \cup
                    (IF ~saved_any THEN {"local"} ELSE {}),
               ![s].ret = TRUE]
        /\ UNCHANGED <<REDIS_URL, MONGODB_URI, redis_up, mongo_up,
                       redis_client, redis_pinged, redis_store, clock, call,
                       messages>>

SaveTimestamp ==
    \E s \in Sessions, u \in Users, m \in UserMsgs(clock), a \in AiMsgs(clock) :
        save_timestamp(s, u, m, a)
SaveLpush == \E s \in Sessions : save_lpush(s)
SaveInsert == \E s \in Sessions : save_insert(s)

NextSaves ==
    \/ SaveTimestamp
    \/ SaveLpush
    \/ SaveInsert
    \/ redis_outage
    \/ mongo_outage

\* save_conversation of several sessions, one store at a time
SpecSaves == Init /\ [][NextSaves]_vars

\* delete_last_conversation, lines 282-291: the client is asked for and
\* the head of the user's list popped
delete_lpop(s, user_id) ==
    /\ threads[s].pc = "idle"
    /\ redis_client' = get_redis_client
    /\ redis_pinged' = get_redis_client
    /\ redis_store' =
           IF delete_last_redis(user_id)
           THEN [redis_store EXCEPT ![user_id] = lpop(user_id)]
           ELSE redis_store
    /\ threads' = [threads EXCEPT ![s] =
          [Idle EXCEPT !.pc = "delete_find_one", !.op = "delete",
                       !.user = user_id,
                       !.done = IF delete_last_redis(user_id)
                                THEN {"redis"} ELSE {}]]
    /\ UNCHANGED <<REDIS_URL, MONGODB_URI, redis_up, mongo_up,
                   mongo_collection, mongo_store, local_conversations, clock,
                   next_id, call, messages>>

\* delete_last_conversation, lines 306-313, for a thread whose deletes from
\* the stores have set deleted_any or not: the pop from the local list
delete_local(t, deleted_any) ==
    LET items == local_conversations[t.user]
        pop == ~deleted_any /\ items # <<>>
    IN  [local |-> IF pop
                   THEN [local_conversations EXCEPT
                            ![t.user] = SubSeq(items, 1, Len(items) - 1)]
                   ELSE local_conversations,
         thread |-> [t EXCEPT
                       !.pc = "idle",
                       !.done = IF deleted_any THEN @
                                ELSE IF pop THEN {"local"} ELSE {},
                       !.ret = deleted_any \/ pop]]

\* delete_last_conversation, lines 294-298: the collection is asked for and
\* the user's latest document looked up; with no collection, no answer or
\* no document the function goes on to the local list and returns
delete_find_one(s) ==
    LET t == threads[s]
        found == get_mongo_collection /\ mongo_up /\ UserDocs(t.user) # {}
        end == delete_local(t, "redis" \in t.done)
    IN  /\ t.pc = "delete_find_one"
        /\ mongo_collection' = get_mongo_collection
        /\ IF found
           THEN /\ threads' = [threads EXCEPT
                      ![s].pc = "delete_one",
                      ![s].found = find_one_latest(t.user).id]
                /\ UNCHANGED local_conversations
           ELSE /\ threads' = [threads EXCEPT ![s] = end.thread]
                /\ local_conversations' = end.local
        /\ UNCHANGED <<REDIS_URL, MONGODB_URI, redis_up, mongo_up,
                       redis_client, redis_pinged, redis_store, mongo_store,
                       clock, next_id, call, messages>>

\* delete_last_conversation, lines 299-313: delete_one by the _id found,
\* whose deleted_count the function does not read, and deleted_any = True;
\* then the local list and the return
delete_one(s) ==
    LET t == threads[s]
        count == Cardinality({d \in mongo_store : d.id = t.found})
        deleted == [t EXCEPT !.done = @ \cup {"mongo"},
                             !.deleted_count = count]
        end == IF mongo_up THEN delete_local(deleted, TRUE)
               ELSE delete_local(t, "redis" \in t.done)
    IN  /\ t.pc = "delete_one"
        /\ mongo_store' =
               IF mongo_up THEN {d \in mongo_store : d.id # t.found}
               ELSE mongo_store
        /\ threads' = [threads EXCEPT ![s] = end.thread]
        /\ local_conversations' = end.local
        /\ UNCHANGED <<REDIS_URL, MONGODB_URI, redis_up, mongo_up,
                       redis_client, redis_pinged, mongo_collection,
                       redis_store, clock, next_id, call, messages>>

\* a save that runs while no session is inside delete_last_conversation
SaveBetween ==
    /\ \A s \in Sessions : threads[s].pc = "idle"
    /\ \E u \in Users, m \in UserMsgs(clock), a \in AiMsgs(clock) :
          save_conversation(u, m, a)
    /\ redis_pinged' = redis_client'
    /\ UNCHANGED <<threads, messages>>

\* a session calls delete_last_conversation for a user whose Redis list and
\* MongoDB documents hold the same two or more turns, or for a user for
\* whom another session is inside such a call
DeleteLpop ==
    \E s \in Sessions, u \in Users :
        /\ \/ /\ \A t \in Sessions : threads[t].pc = "idle"
              /\ Len(redis_store[u]) >= 2
              /\ {redis_turn(redis_store[u][i]) : i \in 1..Len(redis_store[u])}
                   = {mongo_turn(d) : d \in UserDocs(u)}
           \/ \E t \in Sessions \ {s} :
                 threads[t].pc # "idle" /\ threads[t].user = u
        /\ delete_lpop(s, u)
DeleteFindOne == \E s \in Sessions : delete_find_one(s)
DeleteOne == \E s \in Sessions : delete_one(s)

NextDeletes ==
    \/ SaveBetween
    \/ DeleteLpop
    \/ DeleteFindOne
    \/ DeleteOne

\* delete_last_conversation of several sessions, one command at a time,
\* on stores that answer throughout
SpecDeletes == InitHealthy /\ [][NextDeletes]_vars

\* ------------------------------------------------------------ the chat app
\* the user of the chat session
USER_ID == "alice"

\* limit=20 of the load at the top of the script: more than the stores hold
StartupLimit == MaxClock

\* full_response = "I encountered an error generating the response."
ErrorResponse == <<"I encountered an error generating the response.">>

\* app.py lines 173-175: the loaded tuples, oldest first, as messages
RECURSIVE past_messages(_)
past_messages(past) ==
    IF past = <<>> THEN <<>>
    ELSE past_messages(Tail(past)) \o
         <<[role |-> "user", content |-> Head(past)[1]],
           [role |-> "assistant", content |-> Head(past)[2]]>>

\* st.rerun(): the script runs again from the top with the messages kept in
\* the session; an empty list is filled from load_recent_conversations, and
\* the sidebar asks for both handles
rerun(kept) ==
    /\ messages' =
          IF kept # <<>> THEN kept
          ELSE past_messages(
                 load_recent_conversations_result(USER_ID, StartupLimit)')
    /\ redis_pinged' = redis_client'
    /\ UNCHANGED threads

\* a chat turn whose generation completes: the prompt is appended, the turn
\* saved and the answer appended (lines 321, 358, 365)
chat_completed ==
    /\ \E m \in UserMsgs(clock), a \in AiMsgs(clock) :
          /\ save_conversation(USER_ID, m, a)
          /\ rerun(messages \o <<[role |-> "user", content |-> m],
                                  [role |-> "assistant", content |-> a]>>)

\* a chat turn whose generation raises: the prompt is appended, nothing is
\* saved and the error text is appended as the answer (lines 321, 360-365)
chat_failed ==
    /\ Len(messages) < 2 * MaxClock
    /\ \E m \in UserMsgs(clock) :
          /\ redis_client' = get_redis_client
          /\ mongo_collection' = get_mongo_collection
          /\ call' = NoCall
          /\ UNCHANGED <<REDIS_URL, MONGODB_URI, redis_up, mongo_up,
                         redis_store, mongo_store, local_conversations, clock,
                         next_id>>
          /\ rerun(messages \o
                     <<[role |-> "user", content |-> m],
                       [role |-> "assistant", content |-> ErrorResponse]>>)

\* "Undo Last Message" (lines 211-217): the last two messages are popped
\* when there are two, and delete_last_conversation is called in any case
undo_last_message ==
    /\ delete_last_conversation(USER_ID)
    /\ rerun(IF Len(messages) >= 2
             THEN SubSeq(messages, 1, Len(messages) - 2)
             ELSE messages)

\* "Clear All History" (lines 219-223)
clear_all_clicked ==
    /\ clear_all_history(USER_ID)
    /\ rerun(<<>>)

NextApp ==
    \/ chat_completed
    \/ chat_failed
    \/ undo_last_message
    \/ clear_all_clicked

\* one chat session of app.py on stores that answer throughout
SpecApp == InitHealthy /\ [][NextApp]_vars

\* ------------------------------------------------------------ observers
\* the tier can be connected to and answers
CacheReachable == REDIS_URL /\ redis_up
DurableReachable == MONGODB_URI /\ mongo_up

\* the turns a tier holds for a user
CacheTurns(u) == {redis_turn(redis_store[u][i]) : i \in 1..Len(redis_store[u])}
DurableTurns(u) == {mongo_turn(d) : d \in UserDocs(u)}
FallbackTurns(u) ==
    {local_turn(local_conversations[u][i]) :
        i \in 1..Len(local_conversations[u])}

\* the turn the save_conversation call that has just returned was given
SavedTurn ==
    [user_message |-> call.msg, ai_response |-> call.resp, ts |-> call.ts]

\* the context holds the two messages of the turn, the user's first
InContext(ctx, t) ==
    \E i \in 1..Len(ctx) :
        /\ i % 2 = 1 /\ i < Len(ctx)
        /\ ctx[i] = [role |-> "user", content |-> t.user_message]
        /\ ctx[i + 1] = [role |-> "assistant", content |-> t.ai_response]

\* the sidebar list holds the tuple of the turn
InRecent(rows, t) ==
    \E i \in 1..Len(rows) :
        rows[i] = <<t.user_message, t.ai_response, strftime(t.ts)>>

\* ------------------------------------------------------------ claims
\* C1: save_conversation writes to the cache and to the durable store
\* independently: whatever happens on one tier (unreachable, failing,
\* succeeding), the turn is written to the other exactly when that other tier
\* is reachable, and it goes to the fallback exactly when neither external
\* write succeeded.
C1_IndependentWrites ==
    call.op = "save" =>
        /\ SavedTurn \in CacheTurns(call.user) <=> CacheReachable
        /\ SavedTurn \in DurableTurns(call.user) <=> DurableReachable
        /\ SavedTurn \in FallbackTurns(call.user) <=>
              /\ SavedTurn \notin CacheTurns(call.user)
              /\ SavedTurn \notin DurableTurns(call.user)

\* a save during which the cache call failed and the durable write succeeded
C1_Witness ==
    /\ call.op = "save"
    /\ redis_client /\ ~redis_up
    /\ SavedTurn \in DurableTurns(call.user)

\* C2: save_conversation returns true exactly when the turn is held by at
\* least one tier (cache, durable store or fallback) when it returns.
C2_TrueIffPersisted ==
    call.op = "save" =>
        (call.ret <=>
            \/ SavedTurn \in CacheTurns(call.user)
            \/ SavedTurn \in DurableTurns(call.user)
            \/ SavedTurn \in FallbackTurns(call.user))

\* a save that returned true with the turn in the fallback store only
C2_Witness ==
    /\ call.op = "save" /\ call.ret
    /\ SavedTurn \in FallbackTurns(call.user)
    /\ SavedTurn \notin CacheTurns(call.user) \cup DurableTurns(call.user)

\* C3 (P1): with exactly one external tier reachable, save_conversation
\* returns true and the turn is then returned by get_context_history and by
\* load_recent_conversations for every limit >= 1, read from that tier.
C3_SingleTierDurability ==
    (call.op = "save" /\ CacheReachable # DurableReachable) =>
        /\ call.ret
        /\ \A k \in 1..MaxLimit :
              /\ InContext(get_context_history_result(call.user, k), SavedTurn)
              /\ InRecent(load_recent_conversations_result(call.user, k),
                          SavedTurn)
              /\ get_context_history_tier(call.user, k) =
                    (IF CacheReachable THEN "redis" ELSE "mongo")
              /\ load_recent_conversations_tier(call.user, k) =
                    (IF CacheReachable THEN "redis" ELSE "mongo")

\* a save with the cache failing and the durable store up, the user's second
\* document there
C3_Witness ==
    /\ call.op = "save"
    /\ ~CacheReachable /\ DurableReachable
    /\ Cardinality(DurableTurns(call.user)) >= 2

\* C4 (P2): with both external tiers unreachable, save_conversation returns
\* true and the turn is then returned by get_context_history and by
\* load_recent_conversations for every limit >= 1, read from the fallback.
C4_TotalOutageFallback ==
    (call.op = "save" /\ ~CacheReachable /\ ~DurableReachable) =>
        /\ call.ret
        /\ \A k \in 1..MaxLimit :
              /\ InContext(get_context_history_result(call.user, k), SavedTurn)
              /\ InRecent(load_recent_conversations_result(call.user, k),
                          SavedTurn)
              /\ get_context_history_tier(call.user, k) = "local"
              /\ load_recent_conversations_tier(call.user, k) = "local"

\* a save during a total outage, the user's second turn in the fallback
C4_Witness ==
    /\ call.op = "save"
    /\ ~CacheReachable /\ ~DurableReachable
    /\ Len(local_conversations[call.user]) >= 2

\* the turns of a set, in the order they were saved (by their instants)
RECURSIVE InSavedOrder(_)
InSavedOrder(turns) ==
    IF turns = {} THEN <<>>
    ELSE LET first == CHOOSE t \in turns : \A x \in turns : t.ts <= x.ts
         IN  <<first>> \o InSavedOrder(turns \ {first})

\* the turns some tier holds for the user: with no deletion, the turns saved
StoredTurns(u) == CacheTurns(u) \cup DurableTurns(u) \cup FallbackTurns(u)

TierTurns(tier, u) ==
    IF tier = "redis" THEN CacheTurns(u)
    ELSE IF tier = "mongo" THEN DurableTurns(u)
    ELSE FallbackTurns(u)

\* the context of a sequence of turns: two entries a turn, user then assistant
Messages(turns) ==
    LET s == turns
    IN  [i \in 1..(2 * Len(s)) |->
            IF i % 2 = 1
            THEN [role |-> "user", content |-> s[(i + 1) \div 2].user_message]
            ELSE [role |-> "assistant", content |-> s[i \div 2].ai_response]]

\* the sidebar tuples of a sequence of turns
Tuples(turns) ==
    LET s == turns
    IN  [i \in 1..Len(s) |->
            <<s[i].user_message, s[i].ai_response, strftime(s[i].ts)>>]

NewestFirst(turns) ==
    LET s == turns
    IN  [i \in 1..Len(s) |-> s[Len(s) + 1 - i]]

\* the last k turns of the sequence
Window(turns, k) ==
    LET s == turns
        n == Min(k, Len(s))
    IN  [i \in 1..n |-> s[Len(s) - n + i]]

\* C5 (P3) as claimed: with N turns saved for a user, get_context_history
\* with limit N returns the 2N entries of these turns in the order saved,
\* whichever tier serves the read.
C5_Original ==
    \A u \in Users :
        LET N == Cardinality(StoredTurns(u))
        IN  N >= 1 =>
              get_context_history_result(u, N) =
                  Messages(InSavedOrder(StoredTurns(u)))

\* C5 (P3) amended: with N turns saved for a user, get_context_history with
\* limit N returns the 2N entries of these turns, alternating user and
\* assistant, in the order saved, provided the tier that serves the read
\* holds all N turns.
C5_ChronologicalFromFullTier ==
    \A u \in Users :
        LET N == Cardinality(StoredTurns(u))
            tier == get_context_history_tier(u, N)
        IN  (N >= 1 /\ TierTurns(tier, u) = StoredTurns(u)) =>
              /\ get_context_history_result(u, N) =
                    Messages(InSavedOrder(StoredTurns(u)))
              /\ Len(get_context_history_result(u, N)) = 2 * N

\* a context read with three turns saved, served by the durable store
C5_Witness ==
    /\ call.op = "context"
    /\ \E u \in Users :
          /\ Cardinality(StoredTurns(u)) = 3
          /\ get_context_history_tier(u, 3) = "mongo"
          /\ DurableTurns(u) = StoredTurns(u)

\* C6 (P4) as claimed: with N turns saved, get_context_history with limit k,
\* 0 < k < N, returns the 2k entries of the k turns saved last, oldest first.
C6_Original ==
    \A u \in Users : \A k \in 1..MaxLimit :
        k < Cardinality(StoredTurns(u)) =>
            get_context_history_result(u, k) =
                Messages(Window(InSavedOrder(StoredTurns(u)), k))

\* C6 (P4) amended: with N turns saved, get_context_history with limit k,
\* 0 < k < N, returns the 2k entries of the k turns saved last, oldest first,
\* provided the tier that serves the read holds all N turns.
C6_WindowFromFullTier ==
    \A u \in Users : \A k \in 1..MaxLimit :
        LET tier == get_context_history_tier(u, k)
        IN  (k < Cardinality(StoredTurns(u))
             /\ TierTurns(tier, u) = StoredTurns(u)) =>
              /\ get_context_history_result(u, k) =
                    Messages(Window(InSavedOrder(StoredTurns(u)), k))
              /\ Len(get_context_history_result(u, k)) = 2 * k

\* a context read with three turns saved, all of them in the cache that serves
C6_Witness ==
    /\ call.op = "context"
    /\ \E u \in Users :
          /\ Cardinality(StoredTurns(u)) = 3
          /\ get_context_history_tier(u, 2) = "redis"
          /\ CacheTurns(u) = StoredTurns(u)

\* C7: read precedence of get_context_history.  A reachable cache gives the
\* answer, empty or not, and the durable store is then not even connected to;
\* the durable store answers only when the cache is unreachable or failing,
\* the fallback only when the durable store also yields nothing; the answer
\* is always the window of one single tier.
C7_Precedence ==
    \A u \in Users : \A k \in 1..MaxLimit :
        get_context_history_result(u, k) =
            Messages(Window(InSavedOrder(
                IF CacheReachable THEN CacheTurns(u)
                ELSE IF DurableReachable /\ DurableTurns(u) # {}
                     THEN DurableTurns(u)
                     ELSE FallbackTurns(u)), k))

C7_DurableNotConsulted ==
    (call'.op = "context" /\ CacheReachable) =>
        mongo_collection' = mongo_collection

RecentPairs(rows) == {<<rows[i][1], rows[i][2]>> : i \in 1..Len(rows)}
ContextPairs(ctx) ==
    {<<ctx[2 * j - 1].content, ctx[2 * j].content>> : j \in 1..(Len(ctx) \div 2)}

\* C8: load_recent_conversations follows the precedence ladder of
\* get_context_history: for every user and limit > 0 both answer from the
\* same tier, so they return the same set of turns.
C8_SameLadder ==
    \A u \in Users : \A k \in 1..MaxLimit :
        RecentPairs(load_recent_conversations_result(u, k)) =
            ContextPairs(get_context_history_result(u, k))

\* C9 as claimed: load_recent_conversations(user, k) returns the k turns
\* saved last for the user, newest first, whichever tier serves it.
C9_Original ==
    \A u \in Users : \A k \in 1..MaxLimit :
        load_recent_conversations_result(u, k) =
            Tuples(NewestFirst(Window(InSavedOrder(StoredTurns(u)), k)))

\* C9 amended: load_recent_conversations(user, k) returns at most k tuples,
\* newest first, the k most recent turns held by the tier that serves it;
\* when that tier holds all the turns saved for the user, these are the k
\* turns saved last.
C9_NewestFirstFromServingTier ==
    \A u \in Users : \A k \in 1..MaxLimit :
        LET tier == load_recent_conversations_tier(u, k)
            rows == load_recent_conversations_result(u, k)
            held == TierTurns(tier, u)
            saved == StoredTurns(u)
        IN  /\ Len(rows) <= k
            /\ rows = Tuples(NewestFirst(Window(InSavedOrder(held), k)))
            /\ held = saved =>
                  rows = Tuples(NewestFirst(Window(InSavedOrder(saved), k)))

\* a sidebar read with T1, T2, T3 saved for a user, all in the durable store
\* that serves it
C9_Witness ==
    /\ call.op = "recent"
    /\ \E u \in Users :
          /\ Cardinality(StoredTurns(u)) = 3
          /\ load_recent_conversations_tier(u, 2) = "mongo"
          /\ DurableTurns(u) = StoredTurns(u)
          /\ Len(load_recent_conversations_result(u, 2)) = 2

\* the latest document of the user
LatestDoc(u) ==
    CHOOSE d \in UserDocs(u) : \A e \in UserDocs(u) : e.timestamp <= d.timestamp

\* delete_last_conversation took the newest entry off the cache, or left it
CachePopped(u) ==
    IF CacheReachable /\ redis_store[u] # <<>>
    THEN redis_store'[u] = Tail(redis_store[u])
    ELSE redis_store'[u] = redis_store[u]

\* delete_last_conversation took the latest document off the durable store,
\* or left the store as it was
DurablePopped(u) ==
    IF DurableReachable /\ UserDocs(u) # {}
    THEN mongo_store' = mongo_store \ {LatestDoc(u)}
    ELSE mongo_store' = mongo_store

\* C10 as claimed: delete_last_conversation takes the newest entry off every
\* tier that is reachable and not empty for the user, the fallback included.
C10_Original ==
    [][call'.op = "delete" =>
          LET u == call'.user
              items == local_conversations[u]
          IN  /\ CachePopped(u)
              /\ DurablePopped(u)
              /\ items # <<>> =>
                    local_conversations'[u] = SubSeq(items, 1, Len(items) - 1)
      ]_vars

\* C10 amended: delete_last_conversation takes the newest entry off the cache
\* and off the durable store, each when reachable and not empty for the user
\* and independently of the other; it takes the newest entry off the fallback
\* only when neither of them removed one.
C10_DeleteLastTiers ==
    [][call'.op = "delete" =>
          LET u == call'.user
              items == local_conversations[u]
              external == \/ CacheReachable /\ redis_store[u] # <<>>
                          \/ DurableReachable /\ UserDocs(u) # {}
          IN  /\ CachePopped(u)
              /\ DurablePopped(u)
              /\ local_conversations'[u] =
                    IF ~external /\ items # <<>>
                    THEN SubSeq(items, 1, Len(items) - 1)
                    ELSE items
      ]_vars

\* a delete that removed an entry from the cache and one from the durable
\* store while the fallback held a turn of the user
C10_Witness ==
    /\ call.op = "delete"
    /\ call.done = {"redis", "mongo"}
    /\ local_conversations[call.user] # <<>>

\* C11: delete_last_conversation returns TRUE exactly when the call took an
\* entry off some tier; for a user with no entry in any tier it returns
\* FALSE, raises nothing and leaves every tier as it was.
C11_TrueIffRemoved ==
    [][call'.op = "delete" =>
          LET u == call'.user
              removed == \/ redis_store' # redis_store
                         \/ mongo_store' # mongo_store
                         \/ local_conversations' # local_conversations
              no_history == /\ redis_store[u] = <<>>
                            /\ UserDocs(u) = {}
                            /\ local_conversations[u] = <<>>
          IN  /\ call'.ret <=> removed
              /\ ~call'.raised
              /\ no_history =>
                    /\ ~call'.ret
                    /\ UNCHANGED <<redis_store, mongo_store,
                                   local_conversations>>
      ]_vars

\* a delete for a user with no entry anywhere, with both servers answering
\* and the other user holding turns in both of them
C11_Witness ==
    /\ call.op = "delete"
    /\ ~call.ret
    /\ call.tried = {"redis", "mongo", "local"}
    /\ \E v \in Users \ {call.user} :
          redis_store[v] # <<>> /\ UserDocs(v) # {}

\* load_recent_conversations returns nothing for the user, whatever the limit
RecentEmpty(u) ==
    \A k \in Limits : load_recent_conversations_result(u, k) = <<>>

\* C12 as stated, at the first step after the call: once clear_all_history
\* has returned for a user, load_recent_conversations returns an empty
\* sequence for that user after any step that is not a save for that user.
C12_Original ==
    [][\A u \in Users :
          (/\ call.op = "clear" /\ call.user = u
           /\ ~(call'.op = "save" /\ call'.user = u)) => RecentEmpty(u)'
      ]_vars

C12_EmptyAfterClear == call.op = "clear" => RecentEmpty(call.user)

\* a step that leaves the stores, the servers and the handles as they were
\* leaves the result as it was
C12_StaysEmpty ==
    \/ UNCHANGED <<REDIS_URL, MONGODB_URI, redis_up, mongo_up, redis_client,
                   mongo_collection, redis_store, mongo_store,
                   local_conversations>>
    \/ \A u \in Users :
          (/\ call'.op # "none"
           /\ ~(call'.op = "save" /\ call'.user = u)
           /\ RecentEmpty(u)) => RecentEmpty(u)'

\* C12 amended: when clear_all_history returns for a user,
\* load_recent_conversations returns an empty sequence for that user for
\* every limit, and goes on doing so through every call that is not a save
\* for that user, as long as no server stops or starts answering.
C12_ClearAllCompleteness ==
    []C12_EmptyAfterClear /\ [][C12_StaysEmpty]_vars

\* a clear that emptied the durable store and the fallback while the cache,
\* not answering, kept the user's entries
C12_Witness ==
    /\ call.op = "clear"
    /\ "mongo" \in call.done
    /\ "redis" \in call.tried \ call.done
    /\ redis_store[call.user] # <<>>

\* C13: no exception of a store client leaves a public function: for every
\* combination of a connect that fails and a command that fails, on Redis
\* and on MongoDB, save_conversation, get_context_history,
\* load_recent_conversations, delete_last_conversation and clear_all_history
\* return; save_conversation returns TRUE and delete_last_conversation a
\* boolean.
C13_NoFaultEscapes ==
    call.op \in {"save", "context", "recent", "delete", "clear"} =>
        /\ ~call.raised
        /\ call.ret \in BOOLEAN
        /\ call.op = "save" => call.ret

\* a delete during which the command on the cached Redis client failed and
\* the connect to MongoDB failed
C13_Witness ==
    /\ call.op = "delete"
    /\ redis_client /\ ~redis_up
    /\ MONGODB_URI /\ ~mongo_collection /\ ~mongo_up

\* the items of a range that decode, in the order of the range
ValidItems(items) == SelectSeq(items, decodable)

\* C14: an undecodable item of the Redis list is skipped alone: when Redis
\* answers and the range read for a user holds an item that is not JSON,
\* get_context_history and load_recent_conversations still answer from Redis
\* and return every decodable item of the range, leaving out only the
\* undecodable one.
C14_CorruptRecordSkipped ==
    \A u \in Users, k \in 1..MaxLimit :
        (/\ get_redis_client /\ redis_up
         /\ ~decodes(lrange(u, k))
         /\ ValidItems(lrange(u, k)) # <<>>) =>
            /\ get_context_history_tier(u, k) = "redis"
            /\ get_context_history_result(u, k) =
                  as_messages(loads_all(reversed(ValidItems(lrange(u, k)))))
            /\ load_recent_conversations_tier(u, k) = "redis"
            /\ load_recent_conversations_result(u, k) =
                  redis_tuples(ValidItems(lrange(u, k)))

\* C15: with Redis and MongoDB both answering, one save_conversation adds
\* exactly one item at the head of the user's Redis list and exactly one
\* document of that user to the collection, both with the user_message and
\* the ai_response of the call and with the one timestamp read at the start
\* of the call; when the turn goes to the local list instead, the local
\* entry carries that timestamp too.
C15_OneRecordPerTier ==
    [][call'.op = "save" =>
          LET u == call'.user
              turn == [user_message |-> call'.msg, ai_response |-> call'.resp,
                       ts |-> call'.ts]
              items == local_conversations'[u]
          IN  /\ (CacheReachable /\ DurableReachable) =>
                    /\ redis_store'[u] # <<>>
                    /\ redis_store' =
                          [redis_store EXCEPT
                              ![u] = <<Head(redis_store'[u])>> \o @]
                    /\ redis_turn(Head(redis_store'[u])) = turn
                    /\ Cardinality(mongo_store' \ mongo_store) = 1
                    /\ mongo_store \subseteq mongo_store'
                    /\ \A d \in mongo_store' \ mongo_store :
                          d.user_id = u /\ mongo_turn(d) = turn
                    /\ UNCHANGED local_conversations
              /\ local_conversations' # local_conversations =>
                    /\ items # <<>>
                    /\ local_conversations' =
                          [local_conversations EXCEPT
                              ![u] = Append(@, items[Len(items)])]
                    /\ local_turn(items[Len(items)]) = turn
      ]_vars

\* a save written to both servers for a user who already had a turn in each
C15_Witness ==
    /\ call.op = "save"
    /\ call.done = {"redis", "mongo"}
    /\ Len(redis_store[call.user]) >= 2
    /\ Cardinality(UserDocs(call.user)) >= 2

\* C16 as stated, for the calls that write: a call of save_conversation,
\* delete_last_conversation or clear_all_history made while Redis or MongoDB
\* is reachable leaves the local lists as they were.
C16_Original ==
    [][(/\ call'.op \in {"save", "delete", "clear"}
        /\ (CacheReachable \/ DurableReachable))
          => UNCHANGED local_conversations
      ]_vars

C16_FallbackReads ==
    \A u \in Users, k \in 1..MaxLimit :
        /\ load_recent_conversations_tier(u, k) = "local" <=>
              ~(CacheReachable \/ DurableReachable)
        /\ get_context_history_tier(u, k) = "local" <=>
              /\ ~CacheReachable
              /\ DurableReachable => UserDocs(u) = {}

C16_FallbackWrites ==
    LET u == call'.user
        external == \/ CacheReachable /\ redis_store[u] # <<>>
                    \/ DurableReachable /\ UserDocs(u) # {}
    IN  /\ call'.op = "save" =>
              (local_conversations' # local_conversations
                  <=> ~(CacheReachable \/ DurableReachable))
        /\ call'.op = "delete" =>
              (local_conversations' # local_conversations
                  <=> ~external /\ local_conversations[u] # <<>>)
        /\ call'.op = "clear" =>
              local_conversations' = [local_conversations EXCEPT ![u] = <<>>]
        /\ call'.op \in {"context", "recent", "none"} =>
              UNCHANGED local_conversations

\* C16 amended: save_conversation writes the local list only when neither
\* Redis nor MongoDB took the turn, and load_recent_conversations reads it
\* only when neither is reachable; get_context_history reads it also when
\* Redis is unreachable and MongoDB, reachable, has no document of the user;
\* delete_last_conversation pops it when no reachable server held an entry
\* of the user; clear_all_history empties the user's local list in every
\* call.
C16_FallbackUse == []C16_FallbackReads /\ [][C16_FallbackWrites]_vars

\* a delete that popped the local list while both servers were answering,
\* neither holding an entry of the user
C16_Witness ==
    /\ call.op = "delete"
    /\ call.done = {"local"}
    /\ CacheReachable /\ DurableReachable

\* the turns held by the servers, and by the local lists, for any user
ExternalTurns == UNION {CacheTurns(u) \cup DurableTurns(u) : u \in Users}
LocalTurns == UNION {FallbackTurns(u) : u \in Users}

\* no turn is held both by a local list and by a server, and every stored
\* turn was stamped before the instant the next save will read
C17_TiersApart ==
    /\ ExternalTurns \cap LocalTurns = {}
    /\ \A t \in ExternalTurns \cup LocalTurns : t.ts < clock

\* a step puts into a tier only the turn of the save it performs, stamped
\* with the instant of that save
C17_OnlySavesAdd ==
    \/ UNCHANGED <<redis_store, mongo_store, local_conversations>>
    \/ LET added == (ExternalTurns' \ ExternalTurns) \cup
                    (LocalTurns' \ LocalTurns)
       IN  /\ added # {} => call'.op = "save" /\ call'.ts = clock
           /\ added \subseteq {SavedTurn'}

\* C17: a turn written to the local list is never reconciled into Redis or
\* MongoDB: whatever calls follow and however the servers come and go, it
\* does not appear in either of them, and no step copies an entry from one
\* tier into another.
C17_NoReconciliation == []C17_TiersApart /\ [][C17_OnlySavesAdd]_vars

\* a user with a turn in the local list, saved during an outage, and later
\* turns in Redis and in MongoDB, with both servers answering
C17_Witness ==
    /\ CacheReachable /\ DurableReachable
    /\ \E u \in Users :
          /\ FallbackTurns(u) # {}
          /\ CacheTurns(u) # {}
          /\ DurableTurns(u) # {}

\* what the two read functions return for a user is held by some tier
C18_ReadsFromTiers ==
    \A u \in Users, k \in Limits :
        LET held == {<<t.user_message, t.ai_response>> : t \in StoredTurns(u)}
        IN  /\ ContextPairs(get_context_history_result(u, k)) \subseteq held
            /\ RecentPairs(load_recent_conversations_result(u, k))
                  \subseteq held

\* a restart keeps the collection and the Redis lists; the turns of the
\* local lists are in no server and, after the step, in no tier
C18_Restart ==
    call'.op = "restart" =>
        /\ UNCHANGED <<mongo_store, redis_store>>
        /\ \A u \in Users : \A t \in FallbackTurns(u) :
              t \notin ExternalTurns /\ t \notin StoredTurns(u)'

\* C18: a turn saved while Redis and MongoDB are both down is held by the
\* local list alone; a restart of the process leaves the documents of the
\* collection and the Redis lists as they were, and after it no tier holds
\* the turn, so that neither get_context_history nor
\* load_recent_conversations, which return only what a tier holds, returns
\* it.
C18_RestartLosesFallback == []C18_ReadsFromTiers /\ [][C18_Restart]_vars

\* the process restarted while MongoDB held a turn; a turn saved before that
\* one went to a local list only and is in no tier any more
C18_Witness ==
    /\ call.op = "restart"
    /\ \E t \in ExternalTurns :
          \E i \in 1..(t.ts - 1) :
              \A x \in ExternalTurns \cup LocalTurns : x.ts # i
    /\ mongo_store # {}

\* the ways the log of a user in a tier changes in one step: it stays, gains
\* a newest entry, loses its newest entry, or is emptied
CacheLogStep(u) ==
    LET log == redis_store[u]
        log2 == redis_store'[u]
    IN  \/ log2 = log
        \/ /\ call'.op = "save" /\ call'.user = u
           /\ log2 # <<>> /\ Tail(log2) = log
           /\ redis_turn(Head(log2)) = SavedTurn'
        \/ /\ call'.op = "delete" /\ call'.user = u
           /\ log # <<>> /\ log2 = Tail(log)
        \/ /\ call'.op = "clear" /\ call'.user = u
           /\ log2 = <<>>

DurableLogStep(u) ==
    LET log == UserDocs(u)
        log2 == UserDocs(u)'
    IN  \/ log2 = log
        \/ /\ call'.op = "save" /\ call'.user = u
           /\ log \subseteq log2
           /\ \E d \in log2 \ log :
                 /\ log2 = log \cup {d}
                 /\ mongo_turn(d) = SavedTurn'
                 /\ \A e \in log : e.timestamp < d.timestamp
        \/ /\ call'.op = "delete" /\ call'.user = u
           /\ \E d \in log :
                 /\ log2 = log \ {d}
                 /\ \A e \in log : e.timestamp <= d.timestamp
        \/ /\ call'.op = "clear" /\ call'.user = u
           /\ log2 = {}

FallbackLogStep(u) ==
    LET log == local_conversations[u]
        log2 == local_conversations'[u]
    IN  \/ log2 = log
        \/ /\ call'.op = "save" /\ call'.user = u
           /\ log2 # <<>> /\ SubSeq(log2, 1, Len(log2) - 1) = log
           /\ local_turn(log2[Len(log2)]) = SavedTurn'
        \/ /\ call'.op = "delete" /\ call'.user = u
           /\ log # <<>> /\ log2 = SubSeq(log, 1, Len(log) - 1)
        \/ /\ call'.op = "clear" /\ call'.user = u
           /\ log2 = <<>>

HandleStep(handle, handle2, reachable) ==
    /\ handle => handle2
    /\ handle2 => handle \/ reachable
    /\ call'.op = "none" => handle2 = handle
    /\ call'.op \in {"save", "delete", "clear"} =>
          handle2 = (handle \/ reachable)

\* C20: the Redis client and the Mongo collection are created at the first
\* call that needs them, cached, and never dropped: a cached handle stays
\* cached through every later call and is the one returned, also while its
\* server does not answer; a connect that fails leaves no handle and raises
\* nothing, and the next call that needs the handle connects again,
\* caching it as soon as the server answers.
C20_HandlesCached ==
    [][/\ HandleStep(redis_client, redis_client', CacheReachable)
       /\ HandleStep(mongo_collection, mongo_collection', DurableReachable)
       /\ redis_client => get_redis_client
       /\ mongo_collection => get_mongo_collection
       /\ ~call'.raised
      ]_vars

\* a save during which the cached Redis client was used while Redis did not
\* answer and the connect to MongoDB failed
C20_Witness ==
    /\ call.op = "save"
    /\ redis_client /\ ~redis_up
    /\ MONGODB_URI /\ ~mongo_collection /\ ~mongo_up

\* the list get_context_history returns is made of pairs, at most limit of
\* them: a user entry followed by the assistant entry of the same turn
C22_Pairs ==
    \A u \in Users, k \in Limits :
        LET ctx == get_context_history_result(u, k)
            held == StoredTurns(u)
        IN  /\ Len(ctx) % 2 = 0
            /\ Len(ctx) <= 2 * k
            /\ k <= 0 => ctx = <<>>
            /\ \A j \in 1..(Len(ctx) \div 2) :
                  /\ ctx[2 * j - 1].role = "user"
                  /\ ctx[2 * j].role = "assistant"
                  /\ \E t \in held :
                        /\ ctx[2 * j - 1].content = t.user_message
                        /\ ctx[2 * j].content = t.ai_response

\* a call with limit 0 asks for no handle, reads no store and raises nothing
C22_ZeroLimit ==
    (\E u \in Users : get_context_history(u, 0)) =>
        /\ UNCHANGED <<redis_client, mongo_collection, redis_store,
                       mongo_store, local_conversations>>
        /\ ~call'.raised

\* C22: in every reachable state, for every user and limit,
\* get_context_history returns an even number of entries, at most 2 * limit,
\* made of a user entry followed by the assistant entry of the same turn;
\* with limit <= 0 it returns the empty list without asking for a handle
\* or reading a tier.
C22_ContextShape == []C22_Pairs /\ [][C22_ZeroLimit]_vars

\* a context read for a user with three turns stored, of which limit 2
\* returns the four entries of two
C22_Witness ==
    /\ call.op = "context"
    /\ \E u \in Users :
          /\ Cardinality(StoredTurns(u)) = 3
          /\ Len(get_context_history_result(u, 2)) = 4

\* the logs of two users share no turn, and what the read functions return
\* for a user is made of turns of that user's logs
C23_ReadsOwnTurns ==
    \A a \in Users :
        /\ \A b \in Users \ {a} : StoredTurns(a) \cap StoredTurns(b) = {}
        /\ \A k \in Limits :
              LET own == {<<t.user_message, t.ai_response>> :
                              t \in StoredTurns(a)}
              IN  /\ ContextPairs(get_context_history_result(a, k))
                        \subseteq own
                  /\ RecentPairs(load_recent_conversations_result(a, k))
                        \subseteq own

\* a call for a user leaves the logs of every other user as they were
C23_Frame ==
    \/ UNCHANGED <<redis_store, mongo_store, local_conversations>>
    \/ /\ call'.op \in {"save", "delete", "clear"}
       /\ \A b \in Users \ {call'.user} :
             /\ redis_store'[b] = redis_store[b]
             /\ UserDocs(b)' = UserDocs(b)
             /\ local_conversations'[b] = local_conversations[b]

\* C23: users are isolated: save_conversation, delete_last_conversation and
\* clear_all_history called for a user leave the Redis list, the documents
\* and the local list of every other user unchanged, and
\* get_context_history and load_recent_conversations for a user return only
\* turns of that user's own logs, which share no turn with another user's.
C23_UserIsolation == []C23_ReadsOwnTurns /\ [][C23_Frame]_vars

\* a clear for one user while the other user holds turns in Redis and in
\* MongoDB, both answering
C23_Witness ==
    /\ call.op = "clear"
    /\ call.done = {"redis", "mongo", "local"}
    /\ \E b \in Users \ {call.user} :
          redis_store[b] # <<>> /\ UserDocs(b) # {}

\* C24 as stated, at the first step after the save: the turn of a save that
\* has returned is in the context of its user, for every limit that is at
\* least the number of turns stored for the user, after any step that is
\* not a delete or a clear for that user.
C24_Original ==
    [][\A u \in Users : \A t \in {SavedTurn} :
          (/\ call.op = "save" /\ call.user = u
           /\ ~(call'.op \in {"delete", "clear"} /\ call'.user = u)) =>
              \A k \in Limits :
                  k >= Cardinality(StoredTurns(u))' =>
                      InContext(get_context_history_result(u, k), t)'
      ]_vars

\* right after a save the turn is in the context of its user
C24_AfterSave ==
    call.op = "save" =>
        \A k \in Limits :
            k >= Cardinality(StoredTurns(call.user)) =>
                InContext(get_context_history_result(call.user, k), SavedTurn)

\* a read returns every turn of the tier that serves it, the limit allowing
C24_ServingTier ==
    \A u \in Users, k \in 1..MaxLimit :
        LET held == TierTurns(get_context_history_tier(u, k), u)
            ctx == get_context_history_result(u, k)
        IN  k >= Cardinality(held) => \A t \in held : InContext(ctx, t)

\* C24 amended: once save_conversation has returned, get_context_history
\* with a limit of at least the number of turns stored for the user returns
\* the turn right after the save, and in every later state in which the
\* tier that serves the read holds the turn.
C24_RetrievableFromServingTier == [](C24_AfterSave /\ C24_ServingTier)

\* a save that went to MongoDB alone, Redis being configured and down: the
\* context holds the turn now and would not with Redis answering
C24_Witness ==
    /\ call.op = "save"
    /\ call.done = {"mongo"}
    /\ REDIS_URL /\ ~redis_up
    /\ InContext(get_context_history_result(call.user, 1), SavedTurn)

\* C25 as stated, at the first step after the call: once clear_all_history
\* has returned for a user, no read for that user returns a turn saved
\* before it, and once delete_last_conversation has returned TRUE, no read
\* returns a turn it removed, whatever the next step is.
C25_Original ==
    [][\A u \in Users :
          LET gone == IF call.op = "clear"
                      THEN {t \in StoredTurns(u) : t.ts < clock}
                      ELSE {call.out[i] : i \in 1..Len(call.out)}
          IN  (call.op \in {"clear", "delete"} /\ call.user = u) =>
                 \A t \in gone : \A k \in Limits :
                    /\ ~InContext(get_context_history_result(u, k), t)'
                    /\ ~InRecent(load_recent_conversations_result(u, k), t)'
      ]_vars

\* the turn a delete took off a tier, by the place of the tier in call.out
Removed(c, tier) ==
    LET before == IF tier = "redis" THEN {}
                  ELSE IF tier = "mongo" THEN {"redis"}
                  ELSE {"redis", "mongo"}
    IN  c.out[Cardinality(before \cap c.done) + 1]

\* every stored turn was stamped before the instant the next save reads
C25_Stamps ==
    \A u \in Users : \A t \in StoredTurns(u) : t.ts < clock

\* a clear empties every tier that answers, a delete takes its turn off the
\* tier it popped, and a step adds to a tier only a turn stamped with the
\* instant of that step
C25_Removal ==
    \/ UNCHANGED <<redis_store, mongo_store, local_conversations>>
    \/ LET c == call'
       IN  /\ \A u \in Users :
                 (c.op = "clear" /\ c.user = u) =>
                     /\ CacheReachable => redis_store'[u] = <<>>
                     /\ DurableReachable => UserDocs(u)' = {}
                     /\ local_conversations'[u] = <<>>
           /\ \A u \in Users :
                 (c.op = "delete" /\ c.user = u) =>
                     /\ "redis" \in c.done =>
                           Removed(c, "redis") \notin CacheTurns(u)'
                     /\ "mongo" \in c.done =>
                           Removed(c, "mongo") \notin DurableTurns(u)'
                     /\ "local" \in c.done =>
                           Removed(c, "local") \notin FallbackTurns(u)'
           /\ \A v \in Users :
                 \A t \in (CacheTurns(v)' \ CacheTurns(v)) \cup
                         (DurableTurns(v)' \ DurableTurns(v)) \cup
                         (FallbackTurns(v)' \ FallbackTurns(v)) :
                     t.ts = clock

\* C25 amended: clear_all_history removes the user's turns from every tier
\* that answers during the call and from the local list, and
\* delete_last_conversation removes the newest entry of each tier it pops;
\* an entry removed from a tier never comes back into it, a tier gaining
\* only the turn of a new save.  A tier that did not answer during the call
\* keeps its entries.
C25_RemovedFromAnsweringTiers == []C25_Stamps /\ [][C25_Removal]_vars

\* a delete that popped the turn off Redis while MongoDB, failing, kept it
C25_Witness ==
    /\ call.op = "delete"
    /\ call.ret
    /\ call.done = {"redis"}
    /\ "mongo" \in call.tried
    /\ call.out[1] \in DurableTurns(call.user)

C27_Original ==
    (call.op = "delete" /\ {"redis", "mongo"} \subseteq call.done) =>
        Removed(call, "redis") = Removed(call, "mongo")

\* C27 amended: when one delete_last_conversation removes an entry from
\* Redis and one from MongoDB, each is the newest entry of its own tier: the
\* head of the list and the document with the latest timestamp; they are
\* the same turn when the two tiers hold the same turns of the user, and
\* can be two different turns once the tiers have diverged.
C27_NewestOfEachTier ==
    [][\A u \in Users :
          (/\ call'.op = "delete" /\ call'.user = u
           /\ {"redis", "mongo"} \subseteq call'.done) =>
              /\ Removed(call', "redis") = redis_turn(Head(redis_store[u]))
              /\ Removed(call', "mongo") = mongo_turn(LatestDoc(u))
              /\ CacheTurns(u) = DurableTurns(u) =>
                    Removed(call', "redis") = Removed(call', "mongo")
      ]_vars

\* a delete that took one turn off Redis and an earlier one off MongoDB,
\* which had missed the save of the first
C27_Witness ==
    /\ call.op = "delete"
    /\ {"redis", "mongo"} \subseteq call.done
    /\ Removed(call, "mongo").ts < Removed(call, "redis").ts

\* C21: a session that asks for the Redis client or for the MongoDB
\* collection is never given a handle whose ping has not yet been answered,
\* whatever the other sessions are doing.
C21_HandlePingedBeforeVisible ==
    \A s \in Sessions : threads[s].got # "not pinged"

\* C28: however the save_conversation calls of the sessions interleave, a
\* user's Redis list read from its head has non-increasing timestamps, and
\* once no save is in progress and both stores answer and hold the same
\* turns of a user, the context read from Redis is the context read from
\* MongoDB.
C28_WriteOrderIsTimestampOrder ==
    \A u \in Users :
        /\ \A i, j \in 1..Len(redis_store[u]) :
              i < j => redis_turn(redis_store[u][i]).ts
                         >= redis_turn(redis_store[u][j]).ts
        /\ \A k \in 1..MaxLimit :
              (/\ \A s \in Sessions : threads[s].pc = "idle"
               /\ context_from_redis(u, k)
               /\ get_mongo_collection /\ mongo_up
               /\ CacheTurns(u) = DurableTurns(u)) =>
                  as_messages(loads_all(reversed(lrange(u, k))))
                    = get_context_from_mongo(u, k)

\* C29: however the delete_last_conversation calls of the sessions
\* interleave on stores that held the same two or more turns, once all have
\* returned the Redis list and the MongoDB documents of every user hold the
\* same turns again, and a call that counts a MongoDB deletion towards its
\* result has removed a document.
C29_ConcurrentDeletesBalanced ==
    /\ (\A s \in Sessions : threads[s].pc = "idle") =>
          \A u \in Users : CacheTurns(u) = DurableTurns(u)
    /\ \A s \in Sessions :
          (/\ threads[s].pc = "idle" /\ threads[s].op = "delete"
           /\ "mongo" \in threads[s].done) => threads[s].deleted_count = 1

\* C30: when "Undo Last Message" pops a user/assistant pair from the
\* session's messages, every entry delete_last_conversation removes from
\* the stores in that step is the popped exchange; undoing an exchange
\* whose generation failed removes nothing that was saved.
C30_UndoRemovesPoppedTurn ==
    [][(call'.op = "delete" /\ Len(messages) >= 2) =>
          \A i \in DOMAIN call'.out :
              /\ call'.out[i].user_message
                   = messages[Len(messages) - 1].content
              /\ call'.out[i].ai_response = messages[Len(messages)].content
      ]_vars

====
